---- MODULE Spec2Model ----
(***************************************************************************)
(* tjg::Int<T, E> (Int.hpp): a fixed-width integer whose byte order E is   *)
(* part of its type.                                                       *)
(*                                                                         *)
(* A value of an integral type T of w bytes is the sequence of its w       *)
(* value bytes, least significant first (base-256 digits of the two's      *)
(* complement bit pattern).  This is the numeric value, not the memory     *)
(* image: std::byteswap reverses the sequence on every host.  The host     *)
(* order decides only which tag is std::endian::native and in which order  *)
(* the digits lie in memory.                                               *)
(***************************************************************************)
EXTENDS Integers, Sequences, FiniteSets

VARIABLES
  native,   \* std::endian::native of the build: "little" or "big"
  x,        \* an object of type Int<T,E>: [T, E, raw]
  res,      \* the expression last evaluated and what it returned
  s,        \* a std::unordered_set<Int<T,E>>: bucket index -> elements
  keys,     \* the logical values emplaced into s so far
  plainT,   \* a plain T variable
  nativeInt,  \* an Int<T, native> put through the same statements as plainT
  otherInt, \* an Int<T, ~native> put through the same statements as plainT
  steps,    \* the number of statements applied to the three so far
  last      \* whether a statement ended the program, and which one

\* the three variables that are mutated side by side, and their history
trio == <<plainT, nativeInt, otherInt, steps, last>>

vars == <<native, x, res, s, keys, trio>>

-----------------------------------------------------------------------------
(* Bounds of the model.                                                    *)

\* the sample values of a type include the integers -SmallMax..SmallMax
SmallMax == 2
\* the number of buckets of the unordered_set
NumBuckets == 3
\* the number of elements emplaced into the unordered_set
MaxKeys == 2
\* the number of statements applied in a row to the three variables
MaxOps == 2

-----------------------------------------------------------------------------
(* Integral types and their values.                                        *)

Order == {"little", "big"}

uint8_t  == [w |-> 1, s |-> FALSE]
int8_t   == [w |-> 1, s |-> TRUE]
uint16_t == [w |-> 2, s |-> FALSE]
int16_t  == [w |-> 2, s |-> TRUE]
uint32_t == [w |-> 4, s |-> FALSE]
int32_t  == [w |-> 4, s |-> TRUE]
uint64_t == [w |-> 8, s |-> FALSE]
int64_t  == [w |-> 8, s |-> TRUE]

\* the underlying types the tests instantiate Int with
Types == {uint8_t, int8_t, uint16_t, int16_t,
          uint32_t, int32_t, uint64_t, int64_t}

Zero(w) == [i \in 1..w |-> 0]

\* the w-byte pattern of a small integer k, -128 <= k <= 127
FromInt(k, w) ==
  [i \in 1..w |-> IF i = 1 THEN (IF k < 0 THEN 256 + k ELSE k)
                  ELSE IF k < 0 THEN 255 ELSE 0]

\* numeric_limits<T>::min() and max()
MinOf(T) ==
  [i \in 1..T.w |-> IF T.s /\ i = T.w THEN 128 ELSE 0]

MaxOf(T) ==
  [i \in 1..T.w |-> IF T.s /\ i = T.w THEN 127 ELSE 255]

\* the constants of the tests: 0x12345678 and 0x123456789abcdef0
K12345678 == <<120, 86, 52, 18, 0, 0, 0, 0>>

K123456789abcdef0 == <<240, 222, 188, 154, 120, 86, 52, 18>>

\* the values an object of type T is given in this model
Vals(T) ==
  {FromInt(k, T.w) : k \in (0 - SmallMax)..SmallMax}
    \cup {SubSeq(K12345678, 1, T.w), SubSeq(K123456789abcdef0, 1, T.w)}
    \cup {MinOf([w |-> T.w, s |-> TRUE]), MaxOf([w |-> T.w, s |-> TRUE])}

\* T is a signed type and v is negative
IsNeg(v, T) == T.s /\ v[T.w] >= 128

\* static_cast<To>(v) for v of type From: sign- or zero-extension, or
\* truncation to the low bytes
Convert(v, From, To) ==
  [i \in 1..To.w |-> IF i <= From.w THEN v[i]
                     ELSE IF IsNeg(v, From) THEN 255 ELSE 0]

-----------------------------------------------------------------------------
(* Byte order.                                                             *)

\* std::operator~(endian)
Flip(E) == IF E = "little" THEN "big" ELSE "little"

\* std::byteswap
std_byteswap(v) == [i \in 1..Len(v) |-> v[Len(v) + 1 - i]]

\* the bytes of a T in memory, lowest address first
Memory(v) == IF native = "little" THEN v ELSE std_byteswap(v)

\* _get deciding by the host order instead of the order asked for
_get_host(raw, Endian, Rep) ==
  IF Endian = native THEN raw ELSE std_byteswap(raw)

\* Int::_get<Rep>()
_get(raw, Endian, Rep) ==
  IF Endian = Rep THEN raw ELSE std_byteswap(raw)

\* _set without the reversal for a non-native order
_set_noswap(v, Endian) == v

\* Int::_set(x): the new _raw
_set(v, Endian) ==
  IF Endian = native THEN v ELSE std_byteswap(v)

\* Int::value(), big(), little(), operator T
value(a) == _get(a.raw, a.E, native)

big(a) == _get(a.raw, a.E, "big")

little(a) == _get(a.raw, a.E, "little")

\* the object that a reference or pointer to the member _raw of a designates
addressof_raw(a) == [object |-> a, member |-> "_raw"]

\* T& raw() noexcept { return _raw; }
raw(a) == addressof_raw(a)

\* ptr() offered whatever the order of the object
ptr_viable_any(a) == TRUE

\* T* ptr() noexcept requires (Endian == std::endian::native): the
\* constraint decides whether a call of ptr() compiles
ptr_viable(a) == a.E = native

\* ptr(): std::addressof(_raw)
ptr(a) == addressof_raw(a)

\* *p = w for p pointing at the member _raw of a: a after the store
StoreThrough(p, w) == [p.object EXCEPT !.raw = w]

\* operator T returning the storage instead of value()
operator_T_raw(a) == a.raw

operator_T(a) == value(a)

\* explicit Int(T x) noexcept { _set(x); }
IntCtor(T, E, v) == [T |-> T, E |-> E, raw |-> _set(v, E)]

\* Int() = default, with _raw = value_type{0}
IntDefault(T, E) == [T |-> T, E |-> E, raw |-> Zero(T.w)]

\* Int<T,To>{a} for a of type Int<T,From>: the copy constructor when the
\* types are the same, else operator T followed by Int(T)
IntFromInt(To, a) ==
  IF To = a.E THEN a ELSE IntCtor(a.T, To, operator_T(a))

\* byteswap that flips the tag and leaves the bytes where they are
byteswap_retag(a) == [a EXCEPT !.E = Flip(a.E)]

\* byteswap(Int<T,E>) -> Int<T,~E>
byteswap(a) == IntFromInt(Flip(a.E), a)

\* endian_cast that reinterprets the storage under the new tag
endian_cast_retag(To, a) == [a EXCEPT !.E = To]

\* endian_cast<To>(Int<T,From>)
endian_cast(To, a) == IntFromInt(To, a)


-----------------------------------------------------------------------------
(* Conversions between underlying types.                                   *)

\* template<To, From> To narrow_cast(From x) { return static_cast<To>(x); }
narrow_cast(To, From, v) == Convert(v, From, To)

\* narrow_cast that truncates the storage instead of the logical value
narrow_cast_Int_raw(ToT, a) ==
  IF ToT # a.T
    THEN IntCtor(ToT, native, narrow_cast(ToT, a.T, a.raw))
    ELSE a

\* narrow_cast whose result keeps the order of its operand
narrow_cast_Int_keep(ToT, a) ==
  IF ToT # a.T
    THEN IntCtor(ToT, a.E, narrow_cast(ToT, a.T, value(a)))
    ELSE a

\* narrow_cast<ToT>(Int<FmT,E> x): Int<ToT, native>{narrow_cast<ToT>(x.value())}
\* when ToT differs from FmT, x itself when they are the same
narrow_cast_Int(ToT, a) ==
  IF ToT # a.T
    THEN IntCtor(ToT, native, narrow_cast(ToT, a.T, value(a)))
    ELSE a

\* std::convertible_to<From, To> for integral types
convertible_to(From, To) == From \in Types /\ To \in Types

\* requires (From x) { To{ x }; }: list-initialisation from a non-constant
\* is ill-formed when To cannot represent all the values of From
ListInitAccepts(From, To) ==
  IF From.s = To.s THEN To.w >= From.w
  ELSE IF From.s THEN FALSE
  ELSE To.w > From.w

\* NonNarrowing without the list-initialisation requirement
NonNarrowing_convertible(From, To) ==
  From = To \/ convertible_to(From, To)

\* concept NonNarrowing<From, To>
NonNarrowing(From, To) ==
  From = To \/ (convertible_to(From, To) /\ ListInitAccepts(From, To))

\* The overloads of operator= that are viable for dest = u, with dest an
\* Int<T,E1> and u a plain U: the constrained template and the deleted one.
\* The copy assignment is not viable: Int(T) is explicit.
ViableScalarAssign(U, T) ==
  {o \in {"assign", "deleted"} :
     \/ o = "assign"  /\ NonNarrowing(U, T)
     \/ o = "deleted" /\ ~NonNarrowing(U, T)}

\* The overloads viable for dest = a, with a an Int<U,E2>: the defaulted
\* copy assignment when the types are the same, and the two templates.
ViableIntAssign(U, E2, T, E1) ==
  {o \in {"copy", "assign", "deleted"} :
     \/ o = "copy"    /\ U = T /\ E2 = E1
     \/ o = "assign"  /\ NonNarrowing(U, T)
     \/ o = "deleted" /\ ~NonNarrowing(U, T)}

\* overload resolution: a non-template is preferred to a template
Selected(viable) ==
  IF "copy" \in viable THEN "copy"
  ELSE IF "assign" \in viable THEN "assign"
  ELSE "deleted"

\* operator=(U x): _set(T{x})
AssignScalar(dest, U, u) ==
  [dest EXCEPT !.raw = _set(Convert(u, U, dest.T), dest.E)]

\* operator=(Int<U,E2> x): _set(T{U{x}}); the copy assignment copies _raw
AssignInt(dest, a) ==
  IF a.T = dest.T /\ a.E = dest.E
    THEN [dest EXCEPT !.raw = a.raw]
    ELSE [dest EXCEPT !.raw = _set(Convert(operator_T(a), a.T, dest.T), dest.E)]

-----------------------------------------------------------------------------
(* Comparison.                                                             *)

\* the built-in u < v on type T
RECURSIVE LessFrom(_, _, _)
LessFrom(u, v, i) ==
  IF i = 0 THEN FALSE
  ELSE IF u[i] # v[i] THEN u[i] < v[i]
  ELSE LessFrom(u, v, i - 1)

Less(u, v, T) ==
  IF IsNeg(u, T) # IsNeg(v, T) THEN IsNeg(u, T)
  ELSE LessFrom(u, v, T.w)

\* the built-in u <=> v on type T (std::strong_ordering)
Compare3(u, v, T) ==
  IF Less(u, v, T) THEN "less"
  ELSE IF Less(v, u, T) THEN "greater"
  ELSE "equal"

\* the type of an arithmetic expression on T: int (32 bits) when T is
\* narrower, T itself otherwise (int32_t is int, int64_t is long)
Promoted(T) == IF T.w < 4 THEN int32_t ELSE T

\* operator== comparing the identity of the two objects: a key built for a
\* lookup is never the stored object
OpEq_identity(a, b) == FALSE

\* bool operator==(const Int&) const = default: compares _raw
OpEq(a, b) == a.raw = b.raw

\* operator<=> comparing the storage, as operator== does
OpSpaceship_raw(a, b) == Compare3(a.raw, b.raw, a.T)

\* operator<=>(const Int& rhs): value() <=> rhs.value()
OpSpaceship(a, b) == Compare3(value(a), value(b), a.T)

\* Int<T,E> == Int<T,~E>: no member applies, both sides convert through
\* operator T and the built-in == compares the promoted values
CrossEq(a, j) ==
  Convert(operator_T(a), a.T, Promoted(a.T))
    = Convert(operator_T(j), j.T, Promoted(j.T))

-----------------------------------------------------------------------------
(* Built-in arithmetic on w-byte patterns.                                 *)

RECURSIVE AddFrom(_, _, _, _)
AddFrom(u, v, i, c) ==
  IF i > Len(u) THEN <<>>
  ELSE <<(u[i] + v[i] + c) % 256>>
         \o AddFrom(u, v, i + 1, (u[i] + v[i] + c) \div 256)

\* ~v
Not(v) == [i \in 1..Len(v) |-> 255 - v[i]]

\* u + v, u - v and -v modulo 2^(8w)
Add(u, v) == AddFrom(u, v, 1, 0)

Sub(u, v) == AddFrom(u, Not(v), 1, 1)

Neg(v) == Sub(Zero(Len(v)), v)

RECURSIVE ColSum(_, _, _, _)
ColSum(u, v, k, i) ==
  IF i > k THEN 0 ELSE u[i] * v[k + 1 - i] + ColSum(u, v, k, i + 1)

RECURSIVE MulFrom(_, _, _, _)
MulFrom(u, v, k, c) ==
  IF k > Len(u) THEN <<>>
  ELSE <<(ColSum(u, v, k, 1) + c) % 256>>
         \o MulFrom(u, v, k + 1, (ColSum(u, v, k, 1) + c) \div 256)

\* u * v modulo 2^(8w)
Mul(u, v) == MulFrom(u, v, 1, 0)

\* u <= v as unsigned patterns
ULeq(u, v) == ~LessFrom(v, u, Len(u))

\* 2u + bit, one byte longer than needed so that it cannot overflow
RECURSIVE Shl1From(_, _, _)
Shl1From(u, i, c) ==
  IF i > Len(u) THEN <<>>
  ELSE <<(2 * u[i] + c) % 256>> \o Shl1From(u, i + 1, (2 * u[i] + c) \div 256)

\* bit k (0 = least significant) of u
BitAt(u, k) == (u[(k \div 8) + 1] \div (2 ^ (k % 8))) % 2

\* the place of the highest bit set in u, or -1 when u is zero
TopBit(u) ==
  LET set == {k \in 0..(8 * Len(u) - 1) : BitAt(u, k) = 1}
  IN IF set = {} THEN -1 ELSE CHOOSE k \in set : \A j \in set : j <= k

\* Unsigned long division, one bit of the dividend at a time from the top:
\* [q, r] with u = q * v + r and r < v.  While it runs, q and r are one
\* byte longer than u, so that 2r + 1 cannot overflow.
RECURSIVE UDivFrom(_, _, _, _)
UDivFrom(u, v, k, qr) ==
  IF k < 0 THEN qr
  ELSE LET r2 == Shl1From(qr.r, 1, BitAt(u, k))
       IN IF ULeq(v, r2)
            THEN UDivFrom(u, v, k - 1,
                          [q |-> Shl1From(qr.q, 1, 1), r |-> Sub(r2, v)])
            ELSE UDivFrom(u, v, k - 1,
                          [q |-> Shl1From(qr.q, 1, 0), r |-> r2])

UDivMod(u, v) ==
  LET w  == Len(u)
      dm == UDivFrom(u, v \o <<0>>, TopBit(u),
                     [q |-> Zero(w + 1), r |-> Zero(w + 1)])
  IN [q |-> SubSeq(dm.q, 1, w), r |-> SubSeq(dm.r, 1, w)]

\* |v| of a value of type R, as an unsigned pattern
Abs(v, R) == IF IsNeg(v, R) THEN Neg(v) ELSE v

\* u / v and u % v on type R, v nonzero: truncation toward zero, the
\* remainder has the sign of the dividend
Quot(u, v, R) ==
  LET uq == UDivMod(Abs(u, R), Abs(v, R)).q
  IN IF IsNeg(u, R) # IsNeg(v, R) THEN Neg(uq) ELSE uq

Rem(u, v, R) ==
  LET ur == UDivMod(Abs(u, R), Abs(v, R)).r
  IN IF IsNeg(u, R) THEN Neg(ur) ELSE ur

\* An arithmetic expression either yields a value or, on a build that
\* traps undefined behaviour, ends the program.
Ok(v) == [trap |-> FALSE, v |-> v]

Trap(R) == [trap |-> TRUE, v |-> Zero(R.w)]

\* Signed overflow is undefined: the build wraps, or traps.
Undefined(v, R) == {Ok(v), Trap(R)}

\* the outcomes of u + v on the promoted type R
AddOutcomes(u, v, R) ==
  LET r == Add(u, v)
  IN IF R.s /\ IsNeg(u, R) = IsNeg(v, R) /\ IsNeg(r, R) # IsNeg(u, R)
       THEN Undefined(r, R) ELSE {Ok(r)}

\* the outcomes of u - v on the promoted type R
SubOutcomes(u, v, R) ==
  LET r == Sub(u, v)
  IN IF R.s /\ IsNeg(u, R) # IsNeg(v, R) /\ IsNeg(r, R) # IsNeg(u, R)
       THEN Undefined(r, R) ELSE {Ok(r)}

\* the outcomes of u * v on the promoted type R: the product overflows a
\* signed R when the double-width product does not fit in R
MulOutcomes(u, v, R) ==
  LET RR   == [w |-> 2 * R.w, s |-> R.s]
      wide == Mul(Convert(u, R, RR), Convert(v, R, RR))
      r    == Mul(u, v)
  IN IF R.s /\ wide # Convert(r, R, RR)
       THEN Undefined(r, R) ELSE {Ok(r)}

\* the outcomes of u / v and u % v on the promoted type R; division by
\* zero, and min / -1 on a signed R, are undefined
DivOutcomes(u, v, R) ==
  IF v = Zero(R.w) THEN Undefined(Zero(R.w), R)
  ELSE IF R.s /\ u = MinOf(R) /\ v = FromInt(-1, R.w)
    THEN Undefined(u, R)
  ELSE {Ok(Quot(u, v, R))}

ModOutcomes(u, v, R) ==
  IF v = Zero(R.w) THEN Undefined(Zero(R.w), R)
  ELSE IF R.s /\ u = MinOf(R) /\ v = FromInt(-1, R.w)
    THEN Undefined(Zero(R.w), R)
  ELSE {Ok(Rem(u, v, R))}

\* u << k and u >> k for 0 <= k < 8 * Len(u): the left shift is modulo 2^N
\* and the right shift of a negative value is arithmetic
ShiftLeft(u, k) ==
  LET q    == k \div 8
      r    == k % 8
      d(i) == IF i >= 1 THEN u[i] ELSE 0
  IN [i \in 1..Len(u) |->
        ((d(i - q) * (2 ^ r)) % 256) + (d(i - q - 1) \div (2 ^ (8 - r)))]

ShiftRight(u, k, R) ==
  LET q    == k \div 8
      r    == k % 8
      fill == IF IsNeg(u, R) THEN 255 ELSE 0
      d(i) == IF i <= Len(u) THEN u[i] ELSE fill
  IN [i \in 1..Len(u) |->
        (d(i + q) \div (2 ^ r)) + ((d(i + q + 1) * (2 ^ (8 - r))) % 256)]

RECURSIVE BitOp(_, _, _, _)
BitOp(f, p, q, n) ==
  IF n = 0 THEN 0
  ELSE f[(p % 2) + 1][(q % 2) + 1] + 2 * BitOp(f, p \div 2, q \div 2, n - 1)

\* u | v, u & v, u ^ v
BitOr(u, v) ==
  [i \in 1..Len(u) |-> BitOp(<<<<0, 1>>, <<1, 1>>>>, u[i], v[i], 8)]

BitAnd(u, v) ==
  [i \in 1..Len(u) |-> BitOp(<<<<0, 0>>, <<0, 1>>>>, u[i], v[i], 8)]

BitXor(u, v) ==
  [i \in 1..Len(u) |-> BitOp(<<<<0, 1>>, <<1, 0>>>>, u[i], v[i], 8)]

-----------------------------------------------------------------------------
(* The operator surface of Int<T,E>.                                       *)

\* operator|= combining the storage with the logical value of rhs
or_assign_mixed(a, rhs) == [a EXCEPT !.raw = BitOr(a.raw, value(rhs))]

\* operator|=(Int rhs), operator&=(Int rhs), operator^=(Int rhs)
or_assign(a, rhs) == [a EXCEPT !.raw = BitOr(a.raw, rhs.raw)]

and_assign(a, rhs) == [a EXCEPT !.raw = BitAnd(a.raw, rhs.raw)]

xor_assign(a, rhs) == [a EXCEPT !.raw = BitXor(a.raw, rhs.raw)]

\* operator|(Int rhs) const { return Int{*this} |= rhs; } and & and ^
operator_or(a, rhs) == or_assign(a, rhs)

operator_and(a, rhs) == and_assign(a, rhs)

operator_xor(a, rhs) == xor_assign(a, rhs)

\* the promotion applied to the storage instead of the logical value
PromoteInt_raw(a) == Convert(a.raw, a.T, Promoted(a.T))

\* a promoted to the type of an arithmetic expression: operator T, then the
\* integral promotion
PromoteInt(a) == Convert(operator_T(a), a.T, Promoted(a.T))

\* auto s = xa + b; auto s2 = s - b; static_cast<T>(s2)
AddInverseResults(a, b) ==
  LET T  == a.T
      R  == Promoted(T)
      bR == Convert(b, T, R)
  IN UNION {
       IF s1.trap THEN {[trap |-> TRUE, back |-> Zero(T.w)]}
       ELSE {IF s2.trap THEN [trap |-> TRUE, back |-> Zero(T.w)]
             ELSE [trap |-> FALSE, back |-> Convert(s2.v, R, T)] :
               s2 \in SubOutcomes(s1.v, bR, R)} :
         s1 \in AddOutcomes(PromoteInt(a), bR, R)}

\* auto q = xa / nb; auto r = xa % nb;
\* EXPECT_EQ(static_cast<T>(q) * nb + static_cast<T>(r), a)
DivModResults(a, nb) ==
  LET T   == a.T
      R   == Promoted(T)
      nbR == Convert(nb, T, R)
      Bad == [trap |-> TRUE, lhs |-> Zero(R.w)]
  IN UNION {UNION {UNION {
       IF q.trap \/ r.trap \/ m.trap THEN {Bad}
       ELSE {IF sum.trap THEN Bad ELSE [trap |-> FALSE, lhs |-> sum.v] :
               sum \in AddOutcomes(m.v,
                         Convert(Convert(r.v, R, T), T, R), R)} :
         m \in IF q.trap THEN {q}
               ELSE MulOutcomes(Convert(Convert(q.v, R, T), T, R), nbR, R)} :
         r \in ModOutcomes(PromoteInt(a), nbR, R)} :
         q \in DivOutcomes(PromoteInt(a), nbR, R)}

\* value() + 1 and value() - 1: the literal is an int, so the sum is formed
\* on the promoted type of T
ValuePlusOne(a) ==
  LET R == Promoted(a.T)
  IN AddOutcomes(Convert(value(a), a.T, R), FromInt(1, R.w), R)

ValueMinusOne(a) ==
  LET R == Promoted(a.T)
  IN SubOutcomes(Convert(value(a), a.T, R), FromInt(1, R.w), R)

\* *this = static_cast<T>(e) for each outcome e of an expression on the
\* promoted type; ret tells what the operator returns: the object itself
\* (prefix) or the logical value it had before (postfix)
StoreBack(a, outcomes, postfix) ==
  {IF e.trap THEN [trap |-> TRUE, self |-> a, ret |-> value(a)]
   ELSE LET b == AssignScalar(a, a.T, Convert(e.v, Promoted(a.T), a.T))
        IN [trap |-> FALSE, self |-> b,
            ret |-> IF postfix THEN value(a) ELSE b] : e \in outcomes}

\* Int& operator++() and Int& operator--()
operator_pre_inc(a) == StoreBack(a, ValuePlusOne(a), FALSE)

operator_pre_dec(a) == StoreBack(a, ValueMinusOne(a), FALSE)

\* a postfix increment that returns the value after the change
operator_post_inc_new(a) ==
  {[r EXCEPT !.ret = value(r.self)] : r \in StoreBack(a, ValuePlusOne(a), TRUE)}

\* T operator++(int) and T operator--(int)
operator_post_inc(a) == StoreBack(a, ValuePlusOne(a), TRUE)

operator_post_dec(a) == StoreBack(a, ValueMinusOne(a), TRUE)

\* I xi{a}; ++xi; xi--;
IncThenDec(a) ==
  UNION {IF i.trap THEN {i} ELSE operator_post_dec(i.self) :
           i \in operator_pre_inc(a)}

\* the built-in u op v on operands already converted to the promoted type R
Builtin(op, u, v, R) ==
  CASE op = "+" -> AddOutcomes(u, v, R)
    [] op = "-" -> SubOutcomes(u, v, R)
    [] op = "*" -> MulOutcomes(u, v, R)
    [] op = "/" -> DivOutcomes(u, v, R)
    [] op = "%" -> ModOutcomes(u, v, R)
    [] op = "|" -> {Ok(BitOr(u, v))}
    [] op = "&" -> {Ok(BitAnd(u, v))}
    [] op = "^" -> {Ok(BitXor(u, v))}

\* the built-in u << k and u >> k for an int k, on the promoted type R
BuiltinShift(op, u, k, R) ==
  IF op = "<<" THEN {Ok(ShiftLeft(u, k))} ELSE {Ok(ShiftRight(u, k, R))}

\* p op= rhs, ++p, --p and p <<= k on a plain T p: the built-in operator on
\* the promoted operands, the result converted back to T
PlainStore(outcomes, T) ==
  {IF e.trap THEN Trap(T) ELSE Ok(Convert(e.v, Promoted(T), T)) :
     e \in outcomes}

PlainCompound(op, v, rhs, T) ==
  LET R == Promoted(T)
  IN PlainStore(Builtin(op, Convert(v, T, R), Convert(rhs, T, R), R), T)

PlainShift(op, v, k, T) ==
  LET R == Promoted(T)
  IN PlainStore(BuiltinShift(op, Convert(v, T, R), k, R), T)

\* what the body of operator op=(U rhs) receives when a op= rhs is written
\* with rhs a plain T, and when it is written with an Int<T,E> holding rhs:
\* operator op=(Int rhs) { return *this op= T{rhs}; }
Operand(a, rhs) == {rhs, operator_T(IntCtor(a.T, a.E, rhs))}

\* a compound assignment that works on the storage instead of value()
CompoundAssign_raw(op, a, rhs) ==
  LET R == Promoted(a.T)
  IN {IF e.trap THEN [trap |-> TRUE, self |-> a]
      ELSE [trap |-> FALSE,
            self |-> [a EXCEPT !.raw = Convert(e.v, R, a.T)]] :
        e \in Builtin(op, Convert(a.raw, a.T, R), Convert(rhs, a.T, R), R)}

\* operator+=, -=, *=, /=, %= (U rhs):
\* return *this = narrow_cast<T>(value() op rhs);
CompoundAssign(op, a, rhs) ==
  LET R == Promoted(a.T)
  IN StoreBack(a, Builtin(op, Convert(value(a), a.T, R),
                          Convert(rhs, a.T, R), R), FALSE)

\* operator<<=, >>= (std::integral auto rhs):
\* return *this = static_cast<T>(value() << rhs);
ShiftAssign(op, a, k) ==
  LET R == Promoted(a.T)
  IN StoreBack(a, BuiltinShift(op, Convert(value(a), a.T, R), k, R), FALSE)

\* operator|=, &=, ^= (U rhs): return *this |= Int{T{rhs}};
BitAssign(op, a, rhs) ==
  LET b == IntCtor(a.T, a.E, rhs)
  IN CASE op = "|" -> or_assign(a, b)
       [] op = "&" -> and_assign(a, b)
       [] op = "^" -> xor_assign(a, b)

\* The same statement applied to the plain variable, then to the native
\* Int, then to the other one: a step that traps ends the program there.
InTurn(pOut, nOut, oOut) ==
  UNION {
    IF rp.trap
      THEN {[trap |-> TRUE, p |-> plainT, n |-> nativeInt, o |-> otherInt]}
    ELSE UNION {
      IF rn.trap
        THEN {[trap |-> TRUE, p |-> rp.v, n |-> nativeInt, o |-> otherInt]}
      ELSE {[trap |-> ro.trap, p |-> rp.v, n |-> rn.self,
             o |-> IF ro.trap THEN otherInt ELSE ro.self] : ro \in oOut} :
        rn \in nOut} :
      rp \in pOut}

-----------------------------------------------------------------------------
(* Hashing, and the std::unordered_set the tests key by Int<T,E>.          *)

\* std::size_t of a 64-bit build
size_t == uint64_t

\* hash_value(const Int<T,E>& x): static_cast<std::size_t>(x.raw())
hash_value(a) == Convert(a.raw, a.T, size_t)

\* std::hash<tjg::Int<T,E>>::operator()
std_hash(a) == hash_value(a)

\* h modulo n, for a hash h
RECURSIVE ModFrom(_, _, _)
ModFrom(h, i, n) ==
  IF i > Len(h) THEN 0 ELSE (h[i] + 256 * ModFrom(h, i + 1, n)) % n

\* the bucket of a key: its std::hash modulo the bucket count
bucket(key) == ModFrom(std_hash(key), 1, NumBuckets)

\* unordered_set::count(key): the elements of the key's bucket that
\* compare equal to the key
count(set, key) == Cardinality({e \in set[bucket(key)] : OpEq(e, key)})

\* unordered_set::emplace(key): inserted unless an equal element is there
emplace(set, key) ==
  IF count(set, key) > 0 THEN set
  ELSE [set EXCEPT ![bucket(key)] = @ \cup {key}]

\* unordered_set::size()
size(set) == Cardinality(UNION {set[i] : i \in DOMAIN set})

-----------------------------------------------------------------------------
(* The state machine: an object x of one instantiation Int<T,E> on a host  *)
(* of either order, the expressions of the tests evaluated on it, and a    *)
(* std::unordered_set<Int<T,E>>.  One expression is evaluated at a time;   *)
(* its result lives in res until it is dropped.                            *)

None == [op |-> "none"]

\* no statement has ended the program
NoTrap == [trap |-> FALSE]

Idle == res.op = "none"

Init ==
  /\ native \in Order
  /\ \E T \in Types, E \in Order : x = IntDefault(T, E)
  /\ res = None
  /\ s = [i \in 0..(NumBuckets - 1) |-> {}]
  /\ keys = {}
  /\ plainT = Zero(x.T.w)
  /\ nativeInt = IntDefault(x.T, native)
  /\ otherInt = IntDefault(x.T, Flip(native))
  /\ steps = 0
  /\ last = NoTrap

\* x = I{v}
ConstructX ==
  /\ Idle
  /\ \E v \in Vals(x.T) : x' = IntCtor(x.T, x.E, v)
  /\ UNCHANGED <<native, res, s, keys, trio>>

\* auto b = byteswap(x); auto c = byteswap(b);
Byteswap ==
  /\ Idle
  /\ res' = [op |-> "byteswap", b |-> byteswap(x), c |-> byteswap(byteswap(x))]
  /\ UNCHANGED <<native, x, s, keys, trio>>

\* T v = x; Int<T,little> l{v}; Int<T,big> b{v};
CrossEndian ==
  /\ Idle
  /\ res' = [op |-> "cross", v |-> operator_T(x),
             l |-> IntCtor(x.T, "little", operator_T(x)),
             b |-> IntCtor(x.T, "big", operator_T(x))]
  /\ UNCHANGED <<native, x, s, keys, trio>>

\* auto r = narrow_cast<ToT>(x);
NarrowCast ==
  /\ Idle
  /\ \E ToT \in Types :
       res' = [op |-> "narrow", ToT |-> ToT, r |-> narrow_cast_Int(ToT, x)]
  /\ UNCHANGED <<native, x, s, keys, trio>>

\* U u = x; Int<T,E1> dest{}; dest = u;
\* The statement compiles when the overload selected is not the deleted one.
AssignFromScalar ==
  /\ Idle
  /\ \E T \in Types, E1 \in Order :
       LET viable == ViableScalarAssign(x.T, T)
           dest   == IntDefault(T, E1)
       IN res' = [op |-> "assign", from |-> "scalar", viable |-> viable,
                  compiles |-> Selected(viable) # "deleted",
                  dest |-> IF Selected(viable) # "deleted"
                             THEN AssignScalar(dest, x.T, operator_T(x))
                             ELSE dest]
  /\ UNCHANGED <<native, x, s, keys, trio>>

\* Int<T,E1> dest{}; dest = x;
AssignFromInt ==
  /\ Idle
  /\ \E T \in Types, E1 \in Order :
       LET viable == ViableIntAssign(x.T, x.E, T, E1)
           dest   == IntDefault(T, E1)
       IN res' = [op |-> "assign", from |-> "Int", viable |-> viable,
                  compiles |-> Selected(viable) # "deleted",
                  dest |-> IF Selected(viable) # "deleted"
                             THEN AssignInt(dest, x)
                             ELSE dest]
  /\ UNCHANGED <<native, x, s, keys, trio>>

\* I b{w}; J j{w}; x == b; x <=> b; x == j;
Compare ==
  /\ Idle
  /\ \E w \in Vals(x.T) :
       LET b == IntCtor(x.T, x.E, w)
           j == IntCtor(x.T, Flip(x.E), w)
       IN res' = [op |-> "compare", w |-> w, b |-> b,
                  eq |-> OpEq(x, b), cmp |-> OpSpaceship(x, b),
                  rcmp |-> OpSpaceship(b, x), jeq |-> CrossEq(x, j)]
  /\ UNCHANGED <<native, x, s, keys, trio>>

\* auto s = x + b; auto s2 = s - b; static_cast<T>(s2)
AddInverse ==
  /\ Idle
  /\ \E b \in Vals(x.T) : \E r \in AddInverseResults(x, b) :
       res' = [op |-> "addsub", b |-> b, trap |-> r.trap, back |-> r.back]
  /\ UNCHANGED <<native, x, s, keys, trio>>

\* auto q = x / nb; auto r = x % nb; static_cast<T>(q) * nb + static_cast<T>(r)
DivModIdentity ==
  /\ Idle
  /\ \E nb \in Vals(x.T) \ {Zero(x.T.w)} : \E r \in DivModResults(x, nb) :
       res' = [op |-> "divmod", nb |-> nb, trap |-> r.trap, lhs |-> r.lhs]
  /\ UNCHANGED <<native, x, s, keys, trio>>

\* I b{w}; auto o = x | b; auto n = x & b; auto e = x ^ b; auto e2 = e ^ b;
BitwiseIntInt ==
  /\ Idle
  /\ \E w \in Vals(x.T) :
       LET b == IntCtor(x.T, x.E, w)
       IN res' = [op |-> "bitwise", a |-> x, b |-> b,
                  o |-> operator_or(x, b), n |-> operator_and(x, b),
                  e |-> operator_xor(x, b),
                  e2 |-> operator_xor(operator_xor(x, b), b)]
  /\ UNCHANGED <<native, x, s, keys, trio>>

\* I a{x}; ++a;  I b{x}; b++;  I c{x}; --c;  I d{x}; d--;  I xi{x}; ++xi; xi--;
IncDec ==
  /\ Idle
  /\ \E pi \in operator_pre_inc(x), qi \in operator_post_inc(x),
        pd \in operator_pre_dec(x), qd \in operator_post_dec(x),
        c \in IncThenDec(x) :
       res' = [op |-> "incdec", preInc |-> pi, postInc |-> qi,
               preDec |-> pd, postDec |-> qd, cancel |-> c]
  /\ UNCHANGED <<native, x, s, keys, trio>>

\* I b{v}; b.value(); b.little(); b.big(); b.raw();
\* and the same accessors of an Int<T,~E> built from v
Accessors ==
  /\ Idle
  /\ \E v \in Vals(x.T) :
       LET b == IntCtor(x.T, x.E, v)
           j == IntCtor(x.T, Flip(x.E), v)
       IN res' = [op |-> "access", v |-> v, raw |-> b.raw,
                  value |-> value(b), little |-> little(b), big |-> big(b),
                  jlittle |-> little(j), jbig |-> big(j)]
  /\ UNCHANGED <<native, x, s, keys, trio>>

\* auto p = x.ptr(); p == std::addressof(x.raw()); *p = w;
\* The call of ptr() compiles when its constraint is satisfied.
NativePtr ==
  /\ Idle
  /\ \E w \in Vals(x.T) :
       res' = [op |-> "ptr", w |-> w, compiles |-> ptr_viable(x),
               same |-> ptr_viable(x) /\ ptr(x) = raw(x),
               after |-> IF ptr_viable(x) THEN StoreThrough(ptr(x), w)
                         ELSE x]
  /\ UNCHANGED <<native, x, s, keys, trio>>

\* the result of the expression goes out of scope
Discard ==
  /\ ~Idle
  /\ res' = None
  /\ UNCHANGED <<native, x, s, keys, trio>>

\* I key{v}; s.emplace(key);
Emplace ==
  /\ Idle
  /\ size(s) < MaxKeys
  /\ \E v \in Vals(x.T) :
       /\ s' = emplace(s, IntCtor(x.T, x.E, v))
       /\ keys' = keys \cup {v}
  /\ UNCHANGED <<native, x, res, trio>>

\* I key{v}; s.count(key)
Count ==
  /\ Idle
  /\ \E v \in Vals(x.T) :
       LET key == IntCtor(x.T, x.E, v)
       IN res' = [op |-> "count", v |-> v, key |-> key,
                  h |-> hash_value(key), sh |-> std_hash(key),
                  n |-> count(s, key)]
  /\ UNCHANGED <<native, x, s, keys, trio>>

\* Int<T,O> other{v}; I bridged = endian_cast<E>(other); s.count(bridged);
\* auto back = endian_cast<O>(bridged);
BridgedCount ==
  /\ Idle
  /\ \E v \in Vals(x.T), O \in Order :
       LET other   == IntCtor(x.T, O, v)
           bridged == endian_cast(x.E, other)
       IN res' = [op |-> "bridged", v |-> v, other |-> other,
                  bridged |-> bridged, back |-> endian_cast(O, bridged),
                  n |-> count(s, bridged)]
  /\ UNCHANGED <<native, x, s, keys, trio>>

Next ==
  \/ ConstructX
  \/ Byteswap
  \/ CrossEndian
  \/ NarrowCast
  \/ AssignFromScalar
  \/ AssignFromInt
  \/ Compare
  \/ AddInverse
  \/ DivModIdentity
  \/ BitwiseIntInt
  \/ IncDec
  \/ Accessors
  \/ NativePtr
  \/ Discard

Spec == Init /\ [][Next]_vars

\* the container tests: UnorderedMapSetRoundTrip, EndianCastBridgedLookup
NextSet ==
  \/ Emplace
  \/ Count
  \/ BridgedCount
  \/ Discard

SpecSet == Init /\ [][NextSet]_vars

-----------------------------------------------------------------------------
(* The mutating operators: a plain T, an Int<T, native> and an             *)
(* Int<T, ~native> start from zero and are put through the same            *)
(* statements, one after the other.  An arithmetic step whose result is    *)
(* undefined either wraps or ends the program, for each of the three       *)
(* separately.                                                             *)

\* the right-hand operands of the compound assignments, all nonzero, and
\* the shift counts, all below the width of T
Operands(T) ==
  {FromInt(-1, T.w), FromInt(3, T.w), SubSeq(K123456789abcdef0, 1, T.w)}

ShiftCounts(T) == {1, 8 * T.w - 1}

\* an operation that cannot trap
Done(a) == {[trap |-> FALSE, self |-> a]}

\* no statement has ended the program so far
Running == ~last.trap

\* One statement applied to plainT, nativeInt and otherInt in turn.
Step(name, rhs, pOut, nOut, oOut) ==
  /\ steps < MaxOps
  /\ Running
  /\ \E r \in InTurn(pOut, nOut, oOut) :
       /\ plainT' = r.p
       /\ nativeInt' = r.n
       /\ otherInt' = r.o
       /\ last' = IF r.trap
                    THEN [op |-> name, rhs |-> rhs, from |-> plainT,
                          trap |-> TRUE]
                    ELSE NoTrap
  /\ steps' = steps + 1
  /\ UNCHANGED <<native, x, res, s, keys>>

\* p = v; n = v; o = v;
Assign ==
  \E v \in Vals(x.T) :
    Step("=", v, {Ok(v)}, Done(AssignScalar(nativeInt, x.T, v)),
         Done(AssignScalar(otherInt, x.T, v)))

\* ++p; ++n; ++o;  or  p++; n++; o++;
Increment ==
  /\ Running
  /\ \E postfix \in BOOLEAN :
       Step("++", FromInt(1, x.T.w),
            PlainCompound("+", plainT, FromInt(1, x.T.w), x.T),
            IF postfix THEN operator_post_inc(nativeInt)
                       ELSE operator_pre_inc(nativeInt),
            IF postfix THEN operator_post_inc(otherInt)
                       ELSE operator_pre_inc(otherInt))

\* --p; --n; --o;  or  p--; n--; o--;
Decrement ==
  /\ Running
  /\ \E postfix \in BOOLEAN :
       Step("--", FromInt(1, x.T.w),
            PlainCompound("-", plainT, FromInt(1, x.T.w), x.T),
            IF postfix THEN operator_post_dec(nativeInt)
                       ELSE operator_pre_dec(nativeInt),
            IF postfix THEN operator_post_dec(otherInt)
                       ELSE operator_pre_dec(otherInt))

\* p op= rhs; n op= rhs; o op= rhs;  with rhs a T, or an Int of the type of
\* the left-hand side holding rhs
ArithStep(op, rhs) ==
  \E rn \in Operand(nativeInt, rhs), ro \in Operand(otherInt, rhs) :
    Step(op, rhs, PlainCompound(op, plainT, rhs, x.T),
         CompoundAssign(op, nativeInt, rn), CompoundAssign(op, otherInt, ro))

AddAssign == \E rhs \in Operands(x.T) : ArithStep("+", rhs)

SubAssign == \E rhs \in Operands(x.T) : ArithStep("-", rhs)

MulAssign == \E rhs \in Operands(x.T) : ArithStep("*", rhs)

DivAssign == \E rhs \in Operands(x.T) : ArithStep("/", rhs)

ModAssign == \E rhs \in Operands(x.T) : ArithStep("%", rhs)

\* p <<= k; n <<= k; o <<= k;  and >>=
ShiftStep(op, k) ==
  Step(op, k, PlainShift(op, plainT, k, x.T),
       ShiftAssign(op, nativeInt, k), ShiftAssign(op, otherInt, k))

ShlAssign == \E k \in ShiftCounts(x.T) : ShiftStep("<<", k)

ShrAssign == \E k \in ShiftCounts(x.T) : ShiftStep(">>", k)

\* p |= rhs; n |= rhs; o |= rhs;  and &=, ^=
BitStep(op, rhs) ==
  Step(op, rhs, PlainCompound(op, plainT, rhs, x.T),
       Done(BitAssign(op, nativeInt, rhs)),
       Done(BitAssign(op, otherInt, rhs)))

OrAssign == \E rhs \in Operands(x.T) : BitStep("|", rhs)

AndAssign == \E rhs \in Operands(x.T) : BitStep("&", rhs)

XorAssign == \E rhs \in Operands(x.T) : BitStep("^", rhs)

\* the mutating operations, in any order
NextOps ==
  \/ Assign
  \/ Increment
  \/ Decrement
  \/ AddAssign
  \/ SubAssign
  \/ MulAssign
  \/ DivAssign
  \/ ModAssign
  \/ ShlAssign
  \/ ShrAssign
  \/ OrAssign
  \/ AndAssign
  \/ XorAssign

\* the three variables are of the type of x, which is the native Int
InitOps == Init /\ x = nativeInt

SpecOps == InitOps /\ [][NextOps]_vars

-----------------------------------------------------------------------------
(* The properties.                                                         *)

\* a signed type wide enough to hold every value of every type of Types
Wide == [w |-> 9, s |-> TRUE]

\* the value v of type T as a number in Wide
InWide(v, T) == Convert(v, T, Wide)

\* the types whose values fit a TLC integer
Small(T) == T.w <= 2 \/ T = int32_t

\* the integer that the pattern v denotes as a value of a Small type T
ToZ(v, T) ==
  LET d(i) == IF i <= T.w THEN v[i] ELSE IF IsNeg(v, T) THEN 255 ELSE 0
  IN d(1) + 256 * d(2) + 65536 * d(3)
       + 16777216 * (IF d(4) >= 128 /\ T.s THEN d(4) - 256 ELSE d(4))

\* n modulo 2^(8w), read with the signedness of T, for T of one or two bytes
WrapZ(n, T) ==
  LET m == n % (256 ^ T.w)
  IN IF T.s /\ m >= (256 ^ T.w) \div 2 THEN m - 256 ^ T.w ELSE m

(* C1: byteswap(Int<T,E>{v}) is an Int<T,~E> with the same value() and the *)
(* byte-reversed raw(); applying byteswap twice gives back tag E and a     *)
(* bit-identical raw().                                                    *)
C1_ByteswapInvolutive ==
  res.op = "byteswap" =>
    /\ res.b.T = x.T
    /\ res.b.E = Flip(x.E)
    /\ value(res.b) = value(x)
    /\ res.b.raw = std_byteswap(x.raw)
    /\ res.c.T = x.T
    /\ res.c.E = x.E
    /\ res.c.raw = x.raw

\* a byteswap of a non-native multi-byte value whose bytes are no palindrome
C1_Witness ==
  /\ res.op = "byteswap"
  /\ x.T.w > 1
  /\ x.E # native
  /\ res.b.raw # x.raw

(* C2: Int<T,little>{v} and Int<T,big>{v} both report value() = v, the raw *)
(* of one is the byteswap of the raw of the other, the native one stores v *)
(* and the other byteswap(v); 0x12345678 lies in memory as 78 56 34 12 in  *)
(* little order and as 12 34 56 78 in big order.                           *)
C2_CrossEndianValue ==
  res.op = "cross" =>
    /\ value(res.l) = res.v
    /\ value(res.b) = res.v
    /\ res.l.raw = std_byteswap(res.b.raw)
    /\ res.b.raw = std_byteswap(res.l.raw)
    /\ (IF native = "little" THEN res.l ELSE res.b).raw = res.v
    /\ (IF native = "little" THEN res.b ELSE res.l).raw = std_byteswap(res.v)
    /\ (x.T = uint32_t /\ res.v = SubSeq(K12345678, 1, 4)) =>
         /\ Memory(res.l.raw) = <<120, 86, 52, 18>>
         /\ Memory(res.b.raw) = <<18, 52, 86, 120>>

\* 0x12345678 constructed in both orders on a big-endian host
C2_Witness ==
  /\ res.op = "cross"
  /\ x.T = uint32_t
  /\ res.v = SubSeq(K12345678, 1, 4)
  /\ native = "big"

(* C3: narrow_cast<ToT>(Int<FmT,E>{v}) has the logical value v modulo      *)
(* 2^(width of ToT) read with the signedness of ToT, whatever E is;        *)
(* narrow_cast<uint16_t> of the 32-bit unsigned 0x12345678 is 0x5678.      *)
C3_NarrowCastTruncates ==
  res.op = "narrow" =>
    /\ res.r.T = res.ToT
    /\ \A i \in 1..res.ToT.w :
         value(res.r)[i] =
           IF i <= x.T.w THEN value(x)[i]
           ELSE IF x.T.s /\ value(x)[x.T.w] >= 128 THEN 255 ELSE 0
    /\ (Small(x.T) /\ res.ToT.w <= 2) =>
         ToZ(value(res.r), res.ToT) = WrapZ(ToZ(value(x), x.T), res.ToT)
    /\ (x.T = uint32_t /\ value(x) = SubSeq(K12345678, 1, 4)
          /\ res.ToT = uint16_t) => value(res.r) = <<120, 86>>

\* 0x12345678 held in the non-native order, narrowed to 16 bits
C3_Witness ==
  /\ res.op = "narrow"
  /\ x.T = uint32_t
  /\ x.E # native
  /\ value(x) = SubSeq(K12345678, 1, 4)
  /\ res.ToT = uint16_t
  /\ value(res.r) = <<120, 86>>

\* T represents every value of U: converting keeps the number
C4_RepresentsAll(U, T) ==
  \A u \in Vals(U) \cup {MinOf(U), MaxOf(U)} :
    InWide(Convert(u, U, T), T) = InWide(u, U)

(* C4: an assignment to an Int<T,E1> from a plain U or from an Int<U,E2>   *)
(* compiles iff T can represent every value of U; the decision depends on  *)
(* (U,T) only, not on the orders; exactly one of the accepting and the     *)
(* deleted overload applies.                                               *)
C4_AssignIffNonNarrowing ==
  res.op = "assign" =>
    /\ res.compiles <=> C4_RepresentsAll(x.T, res.dest.T)
    /\ Cardinality(res.viable \cap {"assign", "deleted"}) = 1
    /\ res.compiles => InWide(value(res.dest), res.dest.T) = InWide(value(x), x.T)
    /\ ~res.compiles => res.dest.raw = Zero(res.dest.T.w)

\* a cross-order signedness change that loses values is rejected
C4_Witness ==
  /\ res.op = "assign"
  /\ res.from = "Int"
  /\ ~res.compiles
  /\ x.T = uint16_t
  /\ res.dest.T = int16_t
  /\ res.dest.E # x.E

(* C5: for a, b of one instantiation, a == b iff the logical values are    *)
(* equal, a <=> b is the order of the logical values (a total order that   *)
(* does not depend on E) and is 'equal' exactly when a == b; an Int<T,E>   *)
(* and an Int<T,~E> compare == iff their values are equal.                 *)
C5_ComparisonByValue ==
  res.op = "compare" =>
    /\ value(res.b) = res.w
    /\ res.eq <=> (value(x) = res.w)
    /\ res.cmp = Compare3(value(x), res.w, x.T)
    /\ (res.cmp = "equal") <=> res.eq
    /\ res.rcmp = (CASE res.cmp = "less" -> "greater"
                     [] res.cmp = "greater" -> "less"
                     [] OTHER -> "equal")
    /\ Small(x.T) =>
         /\ (res.cmp = "less") <=> (ToZ(value(x), x.T) < ToZ(res.w, x.T))
         /\ (res.cmp = "greater") <=> (ToZ(value(x), x.T) > ToZ(res.w, x.T))
    /\ res.jeq <=> (value(x) = res.w)

\* two non-native values whose storage is ordered the other way round
C5_Witness ==
  /\ res.op = "compare"
  /\ x.E # native
  /\ res.cmp = "less"
  /\ Compare3(x.raw, res.b.raw, x.T) = "greater"

\* every element of the set, whatever its bucket
Elements == UNION {s[i] : i \in DOMAIN s}

(* C6: the hash of an Int<T,E> is a function of raw() only (hash_value and *)
(* std::hash agree), so equal keys hash equal: a set holding distinct      *)
(* values finds exactly one match for an independently constructed key of  *)
(* an emplaced value, and none for any other.                              *)
C6_HashCoherentLookup ==
  /\ \A e \in Elements : e \in s[bucket(e)]
  /\ \A e \in Elements : \A f \in Elements :
       (value(e) = value(f)) => (e = f)
  /\ {value(e) : e \in Elements} = keys
  /\ res.op = "count" =>
       /\ res.h = res.sh
       /\ \A i \in 1..8 :
            res.h[i] = IF i <= x.T.w THEN res.key.raw[i]
                       ELSE IF x.T.s /\ res.key.raw[x.T.w] >= 128 THEN 255
                       ELSE 0
       /\ \A e \in Elements : OpEq(e, res.key) => std_hash(e) = res.sh
       /\ res.n = (IF res.v \in keys THEN 1 ELSE 0)

\* a key found in a bucket that it shares with another element
C6_Witness ==
  /\ res.op = "count"
  /\ res.n = 1
  /\ Cardinality(s[bucket(res.key)]) > 1
  /\ x.E # native

(* C7: endian_cast<O2>(Int<T,O>{v}) has the value v and the raw() of a     *)
(* directly constructed Int<T,O2>{v} (unchanged when O2 = O, reversed      *)
(* otherwise), so it compares and hashes equal to it and a bridged lookup  *)
(* of an emplaced value succeeds; casting back gives the original.         *)
C7_EndianCastBridges ==
  res.op = "bridged" =>
    LET direct == IntCtor(x.T, x.E, res.v)
    IN /\ res.bridged.T = x.T
       /\ res.bridged.E = x.E
       /\ value(res.bridged) = res.v
       /\ res.bridged.raw = direct.raw
       /\ res.bridged.raw = (IF res.other.E = x.E THEN res.other.raw
                             ELSE std_byteswap(res.other.raw))
       /\ OpEq(res.bridged, direct)
       /\ std_hash(res.bridged) = std_hash(direct)
       /\ res.n = (IF res.v \in keys THEN 1 ELSE 0)
       /\ res.back.E = res.other.E
       /\ res.back.raw = res.other.raw
       /\ value(res.back) = value(res.other)

\* an opposite-order key of an emplaced multi-byte value, found after the cast
C7_Witness ==
  /\ res.op = "bridged"
  /\ res.other.E # x.E
  /\ res.other.raw # res.bridged.raw
  /\ res.n = 1

\* a + b computed without wrapping lies in the range of T
C8_SumInRange(a, b, T) ==
  LET sum == Add(InWide(a, T), InWide(b, T))
  IN InWide(Convert(sum, Wide, T), T) = sum

C9_MinByMinusOne(a, b, T) ==
  T.s /\ a = MinOf(T) /\ b = FromInt(-1, T.w)

C10_BitwiseOnStorage ==
  res.op = "bitwise" =>
    /\ \A r \in {res.o, res.n, res.e, res.e2} : r.T = x.T /\ r.E = x.E
    /\ res.o.raw = BitOr(x.raw, res.b.raw)
    /\ res.n.raw = BitAnd(x.raw, res.b.raw)
    /\ res.e.raw = BitXor(x.raw, res.b.raw)
    /\ value(res.o) = BitOr(value(x), value(res.b))
    /\ value(res.n) = BitAnd(value(x), value(res.b))
    /\ value(res.e) = BitXor(value(x), value(res.b))
    /\ Add(value(res.o), value(res.n)) = Add(value(x), value(res.b))
    /\ value(res.e) = Sub(value(res.o), value(res.n))
    /\ res.e2.raw = x.raw
    /\ res.a = x

\* a non-native multi-byte operand whose bits the other operand changes
C10_Witness ==
  /\ res.op = "bitwise"
  /\ x.E # native
  /\ x.T.w > 1
  /\ res.b.raw # std_byteswap(res.b.raw)
  /\ res.o.raw # x.raw
  /\ res.e.raw # res.o.raw

\* value() + 1 is formed without overflow of the promoted type
C11_IncDefined(a) == ~(a.T.s /\ a.T.w >= 4 /\ value(a) = MaxOf(a.T))

\* value() - 1 is formed without overflow of the promoted type
C11_DecDefined(a) == ~(a.T.s /\ a.T.w >= 4 /\ value(a) = MinOf(a.T))

\* T(a + 1) and T(a - 1), modulo 2^(8w)
C11_Up(a) == Add(value(a), FromInt(1, a.T.w))

C11_Down(a) == Sub(value(a), FromInt(1, a.T.w))

\* r is the result of a prefix operator that left the logical value v
C11_Prefix(r, v) ==
  /\ r.self.T = x.T /\ r.self.E = x.E
  /\ value(r.self) = v
  /\ r.ret = r.self

\* r is the result of a postfix operator that left the logical value v
C11_Postfix(r, v) ==
  /\ r.self.T = x.T /\ r.self.E = x.E
  /\ value(r.self) = v
  /\ r.ret = value(x)

C12_AccessorsByOrder ==
  res.op = "access" =>
    /\ res.value = res.v
    /\ res.little = res.jlittle /\ res.big = res.jbig
    /\ res.little = (IF native = "little" THEN res.v ELSE std_byteswap(res.v))
    /\ res.big = (IF native = "big" THEN res.v ELSE std_byteswap(res.v))
    /\ res.little = (IF x.E = "little" THEN res.raw ELSE std_byteswap(res.raw))
    /\ res.big = (IF x.E = "big" THEN res.raw ELSE std_byteswap(res.raw))

\* 0x123456789abcdef0 stored big-endian on a little-endian host, read in
\* both orders
C12_Witness ==
  /\ res.op = "access"
  /\ x.T = uint64_t /\ x.E = "big" /\ native = "little"
  /\ res.v = K123456789abcdef0
  /\ res.little = K123456789abcdef0
  /\ res.big = std_byteswap(K123456789abcdef0)
  /\ res.big # res.little

(* C13: a call of ptr() compiles exactly on an object whose order is the   *)
(* host's; there ptr() addresses the storage that raw() refers to, and     *)
(* after a store of w through it value() == w and raw() == w.              *)
C13_PtrOnlyNative ==
  res.op = "ptr" =>
    /\ res.compiles <=> (x.E = native)
    /\ ~res.compiles => res.after = x
    /\ res.compiles =>
         /\ res.same
         /\ res.after.T = x.T /\ res.after.E = x.E
         /\ value(res.after) = res.w
         /\ res.after.raw = res.w

\* a store of 0x12345678 through ptr() on a native object that held another
\* value, and a rejected call on a non-native one
C13_Witness ==
  /\ res.op = "ptr"
  /\ x.T = uint32_t
  /\ res.w = SubSeq(K12345678, 1, 4)
  /\ \/ /\ x.E = native /\ value(x) = FromInt(2, 4)
        /\ res.compiles /\ res.after.raw = SubSeq(K12345678, 1, 4)
     \/ x.E # native /\ ~res.compiles /\ value(x) = FromInt(2, 4)

(* C15: narrow_cast<ToT>(Int<FmT,E>) with ToT other than FmT is an         *)
(* Int<ToT, native> whatever E is, its raw() holding the converted value   *)
(* un-reversed; with ToT the same as FmT it is its operand, with tag E and *)
(* the same raw().                                                         *)
C15_NarrowCastTag ==
  res.op = "narrow" =>
    /\ res.ToT # x.T =>
         /\ res.r.T = res.ToT
         /\ res.r.E = native
         /\ res.r.raw = Convert(value(x), x.T, res.ToT)
    /\ res.ToT = x.T =>
         /\ res.r.T = x.T
         /\ res.r.E = x.E
         /\ res.r.raw = x.raw

\* 0x123456789abcdef0 held in the non-native order: narrowed to 32 bits
\* the result is native and holds 0x9abcdef0 as it is; cast to its own type
\* it stays non-native with its reversed storage
C15_Witness ==
  /\ res.op = "narrow"
  /\ x.T = uint64_t
  /\ x.E # native
  /\ x.raw = std_byteswap(K123456789abcdef0)
  /\ \/ /\ res.ToT = uint32_t
        /\ res.r.E = native /\ res.r.E # x.E
        /\ res.r.raw = <<240, 222, 188, 154>>
     \/ /\ res.ToT = uint64_t
        /\ res.r.E # native
        /\ res.r.raw = std_byteswap(K123456789abcdef0)

\* the three are related: both Ints have the logical value of the plain
\* variable, the native one stores it as it is and the other one reversed
C14_Related ==
  /\ value(nativeInt) = plainT
  /\ value(otherInt) = plainT
  /\ nativeInt.raw = plainT
  /\ otherInt.raw = std_byteswap(plainT)
  /\ nativeInt.E = native /\ otherInt.E = Flip(native)

\* the exact result of a op b for op among + - *, on twice the width of the
\* promoted type of T
C14_Exact(op, a, b, T) ==
  LET R  == Promoted(T)
      RR == [w |-> 2 * R.w, s |-> TRUE]
      ua == Convert(Convert(a, T, R), R, RR)
      ub == Convert(Convert(b, T, R), R, RR)
  IN CASE op \in {"+", "++"} -> Add(ua, ub)
       [] op \in {"-", "--"} -> Sub(ua, ub)
       [] op = "*" -> Mul(ua, ub)

\* the step a op= b has no defined result on T: the promoted type is signed
\* and the exact result does not fit it, or the minimum of a signed T of 32
\* or 64 bits is divided by -1
C14_Overflows(op, a, b, T) ==
  LET R  == Promoted(T)
      RR == [w |-> 2 * R.w, s |-> TRUE]
  IN /\ R.s
     /\ \/ /\ op \in {"+", "++", "-", "--", "*"}
           /\ Convert(Convert(C14_Exact(op, a, b, T), RR, R), R, RR)
                # C14_Exact(op, a, b, T)
        \/ /\ op \in {"/", "%"}
           /\ T.w >= 4 /\ a = MinOf(T) /\ b = FromInt(-1, T.w)

====
